---- MODULE Spec2Model ----
(***************************************************************************)
(* A model of simple_async_scan.py: the AsyncTCPScanner engine (register,  *)
(* execute, __scan_targets, __tcp_connection, __notify_all) and the        *)
(* observers it notifies.  One asyncio event loop runs the probe tasks;    *)
(* the connection attempts and the wait_for timers are the environment.    *)
(***************************************************************************)
EXTENDS Integers, Sequences, FiniteSets, TLC

\* ---------------------------------------------------------------- bounds
MaxTargets == 2      \* longest target_addresses sequence explored
MaxPorts == 2        \* longest ports sequence explored
MaxObservers == 2    \* longest observer list explored
MaxExecutes == 2     \* execute() calls explored per engine
MaxClock == 1        \* latest instant at which the clock still advances while idle
TimeoutTicks == 1    \* clock ticks that make up wait_for's 3.0 s timeout

\* ------------------------------------------------------------- constants
MaxValidPort == 65535        \* ports above it make the connect call raise OverflowError
NoTime == -1                 \* start_time / end_time = None
NoResults == << <<"", 0, "None">> >>   \* scan_results = None

Addresses == {"h1", "h2"}
PortNumbers == {80, 70000}
ObserverIds == {"o1", "o2"}

\* Sequences over S of length lo..hi.
SeqsOf(S, lo, hi) == UNION {[1..n -> S] : n \in lo..hi}

\* The target lists explored: every list over Addresses, up to the renaming
\* of the addresses (the engine never inspects an address).
TargetLists == {ts \in SeqsOf(Addresses, 1, MaxTargets) : ts[1] = "h1"}

VARIABLES
    target_addresses,   \* self.target_addresses
    ports,              \* self.ports: the items the iterable still yields
    ports_is_iterator,  \* TRUE when self.ports is a one-shot iterator (a generator)
    ports_given,        \* the items self.ports held when the engine was constructed
    start_time,         \* self.start_time
    end_time,           \* self.end_time
    scan_results,       \* self.scan_results
    observers,          \* self.__observers
    pc,                 \* where the caller's thread is in execute()
    tasks,              \* the probe tasks of the running asyncio.run, in creation order
    idx,                \* position of __notify_all's for loop in the observer list
    calls,              \* the update() invocations of the current execute() call
    now,                \* time.time()
    executes,           \* number of execute() calls begun
    last_exit,          \* how the last execute() call ended
    submitted,          \* what the current execute() call found when it began: the
                        \* ports, the observers and, until it stores its own, the
                        \* previous results and end_time
    completed           \* history: the tasks of the running asyncio.run, in the order they finished

vars == <<target_addresses, ports, ports_is_iterator, ports_given, start_time, end_time,
          scan_results, observers, pc, tasks, idx, calls, now, executes,
          last_exit, submitted, completed>>

\* The value of completed in the behaviours that do not record the order.
Unrecorded == <<0>>

\* The history variable after task i finished, and at the start of a call.
Record(c, i) == IF c = Unrecorded THEN c ELSE Append(c, i)
RecordNone(c) == IF c = Unrecorded THEN c ELSE <<>>

\* submitted.previous once the call has stored results of its own.
NoPrevious == [scan_results |-> NoResults, end_time |-> NoTime]

engine == <<target_addresses, ports, ports_is_iterator, ports_given, start_time, end_time,
            scan_results, observers>>

\* ------------------------------------------------------------------ Init
\* AsyncTCPScanner.__init__
EngineInit ==
    /\ target_addresses \in TargetLists
    /\ ports \in SeqsOf(PortNumbers, 1, MaxPorts)
    /\ ports_is_iterator \in BOOLEAN
    /\ ports_given = ports
    /\ start_time = NoTime
    /\ end_time = NoTime
    /\ scan_results = NoResults
    /\ observers = <<>>
    /\ pc = "idle"
    /\ tasks = <<>>
    /\ idx = 0
    /\ calls = <<>>
    /\ now = 0
    /\ executes = 0
    /\ last_exit = "none"
    /\ submitted = [ports |-> <<>>, observers |-> <<>>, previous |-> NoPrevious]

Init == EngineInit /\ completed = Unrecorded

\* -------------------------------------------------------------- register
\* Mutant of Register: the observer inserted at the head of the list.
Register_Prepend(o) ==
    /\ pc = "idle"
    /\ Len(observers) < MaxObservers
    /\ observers' = <<o>> \o observers
    /\ UNCHANGED <<target_addresses, ports, ports_is_iterator, ports_given,
                   start_time, end_time, scan_results, pc, tasks, idx, calls,
                   now, executes, last_exit, submitted, completed>>

\* register(observer): self.__observers.append(observer).  execute() is
\* synchronous, so its caller registers only between calls.
Register(o) ==
    /\ pc = "idle"
    /\ Len(observers) < MaxObservers
    /\ observers' = Append(observers, o)
    /\ UNCHANGED <<target_addresses, ports, ports_is_iterator, ports_given, start_time,
                   end_time, scan_results, pc, tasks, idx, calls, now,
                   executes, last_exit, submitted, completed>>

\* --------------------------------------------------------------- execute
\* execute(), line 33: self.start_time = time.time()
ExecuteBegin ==
    /\ pc = "idle"
    /\ executes < MaxExecutes
    /\ start_time' = now
    /\ executes' = executes + 1
    /\ calls' = <<>>
    /\ tasks' = <<>>
    /\ idx' = 0
    /\ last_exit' = "running"
    /\ submitted' = [ports |-> ports, observers |-> observers,
                     previous |-> [scan_results |-> scan_results,
                                   end_time |-> end_time]]
    /\ completed' = RecordNone(completed)
    /\ pc' = "started"
    /\ UNCHANGED <<target_addresses, ports, ports_is_iterator, ports_given, end_time,
                   scan_results, observers, now>>

\* Mutant of ScanPairs: the two sequences walked in step (zip) instead of nested.
ScanPairs_Zip(ps, ts) ==
    [k \in 1..(IF Len(ps) < Len(ts) THEN Len(ps) ELSE Len(ts)) |->
        [ip_address |-> ts[k], port |-> ps[k]]]

\* The (address, port) pairs of the generator expression of __scan_targets:
\* for port in self.ports for address in self.target_addresses.
ScanPairs(ps, ts) ==
    [k \in 1..(Len(ps) * Len(ts)) |->
        [ip_address |-> ts[((k - 1) % Len(ts)) + 1],
         port       |-> ps[((k - 1) \div Len(ts)) + 1]]]

\* asyncio.create_task(self.__tcp_connection(loop, address, port))
NewTask(pair) ==
    [ip_address |-> pair.ip_address, port |-> pair.port,
     status |-> "created", port_state |-> "unset", rem |-> 0,
     exc |-> "none", connection |-> "none"]

\* What iterating self.ports to its end leaves in it.
AfterIteration(ps, isIter) == IF isIter THEN <<>> ELSE ps

\* __scan_targets up to the await: gather(*scans) unpacks the generator, which
\* creates every task before gather is called.
ScanTargets ==
    /\ pc = "started"
    /\ tasks' = [k \in DOMAIN ScanPairs(ports, target_addresses) |->
                    NewTask(ScanPairs(ports, target_addresses)[k])]
    /\ ports' = AfterIteration(ports, ports_is_iterator)
    /\ pc' = "gathering"
    /\ UNCHANGED <<target_addresses, ports_is_iterator, ports_given, start_time, end_time,
                   scan_results, observers, idx, calls, now, executes,
                   last_exit, submitted, completed>>


\* ------------------------------------------------------ __tcp_connection
\* Mutant of InitialPortState: the state preset to 'open'.
InitialPortState_Open == "open"

\* Line 50: port_state = 'closed', before the attempt.
InitialPortState == "closed"

\* Line 54: port_state = 'open', after the attempt succeeded.
ConnectedPortState == "open"

\* Mutants of SuppressedClasses: one class left out of the suppress call.
SuppressedClasses_NoOSError == {"ConnectionRefusedError", "TimeoutError"}
SuppressedClasses_NoTimeout == {"ConnectionRefusedError", "OSError"}

\* The exception classes named by contextlib.suppress, lines 48-49.
SuppressedClasses == {"ConnectionRefusedError", "TimeoutError", "OSError"}

\* issubclass(exc, cls) among the exceptions a connection attempt raises
\* (asyncio.TimeoutError is its own class in the Pythons whose
\* open_connection takes loop=).
IsSubclass(exc, cls) ==
    \/ exc = cls
    \/ exc = "ConnectionRefusedError" /\ cls = "OSError"

\* Whether contextlib.suppress swallows exc.
Suppressed(exc) == \E cls \in SuppressedClasses : IsSubclass(exc, cls)

\* How open_connection(ip_address, port) can resolve on its own: a port the
\* socket layer accepts connects, is refused or fails with an OS error; a port
\* above 65535 fails in name resolution (OSError) or in connect (OverflowError).
AttemptOutcomes(port) ==
    IF port <= MaxValidPort
    THEN {"connected", "ConnectionRefusedError", "OSError"}
    ELSE {"OSError", "OverflowError"}

\* First step of the task: lines 48-53 up to the await; wait_for arms its
\* timer (timeout=3.0).
EnterProbe(t) ==
    [t EXCEPT !.status = "awaiting", !.port_state = InitialPortState,
              !.rem = TimeoutTicks]

\* The task resumed with the outcome of wait_for: lines 53-55.  The (reader,
\* writer) pair of an established connection is the discarded value of the
\* await: nothing closes the writer.
Resume(t, outcome) ==
    IF outcome = "connected"
    THEN [t EXCEPT !.status = "returned", !.rem = 0,
                   !.port_state = ConnectedPortState, !.connection = "open"]
    ELSE IF Suppressed(outcome)
    THEN [t EXCEPT !.status = "returned", !.rem = 0]
    ELSE [t EXCEPT !.status = "raised", !.rem = 0, !.exc = outcome]

\* Line 55: return ip_address, port, port_state
Result(t) == <<t.ip_address, t.port, t.port_state>>

\* Mutant of TaskStart: a task starts only when the tasks before it finished.
TaskStart_OneAtATime(i) ==
    /\ pc = "gathering"
    /\ i \in DOMAIN tasks
    /\ tasks[i].status = "created"
    /\ \A j \in 1..(i - 1) : tasks[j].status \in {"returned", "raised"}
    /\ tasks' = [tasks EXCEPT ![i] = EnterProbe(@)]
    /\ UNCHANGED <<engine, pc, idx, calls, now, executes, last_exit,
                   submitted, completed>>

\* The event loop runs each new task's first step in creation order.
TaskStart(i) ==
    /\ pc = "gathering"
    /\ i \in DOMAIN tasks
    /\ tasks[i].status = "created"
    /\ \A j \in 1..(i - 1) : tasks[j].status # "created"
    /\ tasks' = [tasks EXCEPT ![i] = EnterProbe(@)]
    /\ UNCHANGED <<engine, pc, idx, calls, now, executes, last_exit,
                   submitted, completed>>

\* Mutant of ConnectionResolves: the task adds its outcome to the engine's
\* scan_results itself.
ConnectionResolves_Shared(i, outcome) ==
    /\ pc = "gathering"
    /\ i \in DOMAIN tasks
    /\ tasks[i].status = "awaiting"
    /\ tasks[i].rem > 0
    /\ outcome \in AttemptOutcomes(tasks[i].port)
    /\ tasks' = [tasks EXCEPT ![i] = Resume(@, outcome)]
    /\ completed' = Record(completed, i)
    /\ scan_results' = Append(scan_results, Result(Resume(tasks[i], outcome)))
    /\ UNCHANGED <<target_addresses, ports, ports_is_iterator, ports_given,
                   start_time, end_time, observers, pc, idx, calls, now,
                   executes, last_exit, submitted>>

\* The connection attempt of task i resolves before its timeout.
ConnectionResolves(i, outcome) ==
    /\ pc = "gathering"
    /\ i \in DOMAIN tasks
    /\ tasks[i].status = "awaiting"
    /\ tasks[i].rem > 0
    /\ outcome \in AttemptOutcomes(tasks[i].port)
    /\ tasks' = [tasks EXCEPT ![i] = Resume(@, outcome)]
    /\ completed' = Record(completed, i)
    /\ UNCHANGED <<engine, pc, idx, calls, now, executes, last_exit, submitted>>

\* Mutant of TimeoutFires: the attempt is awaited without a timer.
TimeoutFires_Never(i) ==
    /\ FALSE
    /\ UNCHANGED vars

\* wait_for's timer of task i fires: the attempt is cancelled and
\* asyncio.TimeoutError is raised into the task.
TimeoutFires(i) ==
    /\ pc = "gathering"
    /\ i \in DOMAIN tasks
    /\ tasks[i].status = "awaiting"
    /\ tasks[i].rem = 0
    /\ tasks' = [tasks EXCEPT ![i] = Resume(@, "TimeoutError")]
    /\ completed' = Record(completed, i)
    /\ UNCHANGED <<engine, pc, idx, calls, now, executes, last_exit, submitted>>

\* ------------------------------------------------------------- the clock
Awaiting == {i \in DOMAIN tasks : tasks[i].status = "awaiting"}

\* One tick of time.time(): between calls, or while the loop waits for the
\* probes' connections and timers (it runs new tasks' first steps without
\* waiting, and a due timer before it waits again).
Tick ==
    /\ \/ pc = "idle" /\ now < MaxClock
       \/ /\ pc = "gathering"
          /\ Awaiting # {}
          /\ \A i \in DOMAIN tasks : tasks[i].status # "created"
          /\ \A i \in Awaiting : tasks[i].rem > 0
    /\ now' = now + 1
    /\ tasks' = [i \in DOMAIN tasks |->
                    IF tasks[i].status = "awaiting"
                    THEN [tasks[i] EXCEPT !.rem = @ - 1] ELSE tasks[i]]
    /\ UNCHANGED <<engine, pc, idx, calls, executes, last_exit, submitted, completed>>

\* ------------------------------------------------- gather and asyncio.run
\* Mutants of Gather: the results in the reverse of the order the tasks were
\* passed, and in the order the tasks finished.
Gather_Reversed(ts) == [k \in DOMAIN ts |-> <<ts[Len(ts) + 1 - k].ip_address,
                                              ts[Len(ts) + 1 - k].port,
                                              ts[Len(ts) + 1 - k].port_state>>]
Gather_CompletionOrder(ts) ==
    [k \in DOMAIN ts |->
        IF k \in DOMAIN completed /\ completed[k] \in DOMAIN ts
        THEN <<ts[completed[k]].ip_address, ts[completed[k]].port,
               ts[completed[k]].port_state>>
        ELSE <<ts[k].ip_address, ts[k].port, ts[k].port_state>>]

\* asyncio.gather's result list: one entry per task, in the order the tasks
\* were passed.
Gather(ts) == [k \in DOMAIN ts |-> Result(ts[k])]

\* Mutant of GatherReturn: the wait ends with the first task that returns.
GatherReturn_FirstCompleted ==
    /\ pc = "gathering"
    /\ \E i \in DOMAIN tasks : tasks[i].status = "returned"
    /\ scan_results' = Gather(tasks)
    /\ submitted' = [submitted EXCEPT !.previous = NoPrevious]
    /\ pc' = "scanned"
    /\ UNCHANGED <<target_addresses, ports, ports_is_iterator, ports_given, start_time,
                   end_time, observers, tasks, idx, calls, now, executes,
                   last_exit, completed>>

\* Line 34: every task returned; asyncio.run returns the list and execute
\* stores it.
GatherReturn ==
    /\ pc = "gathering"
    /\ \A i \in DOMAIN tasks : tasks[i].status = "returned"
    /\ scan_results' = Gather(tasks)
    /\ submitted' = [submitted EXCEPT !.previous = NoPrevious]
    /\ pc' = "scanned"
    /\ UNCHANGED <<target_addresses, ports, ports_is_iterator, ports_given, start_time,
                   end_time, observers, tasks, idx, calls, now, executes,
                   last_exit, completed>>

\* Mutant of GatherRaise: the outcomes of the tasks that returned are stored
\* before the exception leaves execute().
GatherRaise_StoresPartial ==
    /\ pc = "gathering"
    /\ \E i \in DOMAIN tasks : tasks[i].status = "raised"
    /\ tasks' = [i \in DOMAIN tasks |->
                    IF tasks[i].status \in {"created", "awaiting"}
                    THEN [tasks[i] EXCEPT !.status = "cancelled", !.rem = 0]
                    ELSE tasks[i]]
    /\ scan_results' = Gather(tasks)
    /\ pc' = "idle"
    /\ last_exit' = "probe_error"
    /\ UNCHANGED <<target_addresses, ports, ports_is_iterator, ports_given,
                   start_time, end_time, observers, idx, calls, now, executes,
                   submitted, completed>>

\* Line 34: a task raised; gather raises it into __scan_targets, asyncio.run
\* cancels the other tasks and the exception leaves execute().
GatherRaise ==
    /\ pc = "gathering"
    /\ \E i \in DOMAIN tasks : tasks[i].status = "raised"
    /\ tasks' = [i \in DOMAIN tasks |->
                    IF tasks[i].status \in {"created", "awaiting"}
                    THEN [tasks[i] EXCEPT !.status = "cancelled", !.rem = 0]
                    ELSE tasks[i]]
    /\ pc' = "idle"
    /\ last_exit' = "probe_error"
    /\ UNCHANGED <<engine, idx, calls, now, executes, submitted, completed>>

\* The abandoned transports of a closed event loop are finalized, which
\* closes their sockets; when that happens is the garbage collector's choice
\* (the loop keeps them registered while it runs).
CollectGarbage ==
    /\ pc \notin {"started", "gathering"}
    /\ \E i \in DOMAIN tasks : tasks[i].connection = "open"
    /\ tasks' = [i \in DOMAIN tasks |->
                    IF tasks[i].connection = "open"
                    THEN [tasks[i] EXCEPT !.connection = "closed"]
                    ELSE tasks[i]]
    /\ UNCHANGED <<engine, pc, idx, calls, now, executes, last_exit,
                   submitted, completed>>

\* Mutant of RecordEndTime: the two timestamps stored in each other's field.
RecordEndTime_Swapped ==
    /\ pc = "scanned"
    /\ end_time' = start_time
    /\ start_time' = now
    /\ idx' = 1
    /\ pc' = "notifying"
    /\ UNCHANGED <<target_addresses, ports, ports_is_iterator, ports_given,
                   scan_results, observers, tasks, calls, now, executes,
                   last_exit, submitted, completed>>

\* Line 35: self.end_time = time.time()
RecordEndTime ==
    /\ pc = "scanned"
    /\ end_time' = now
    /\ idx' = 1
    /\ pc' = "notifying"
    /\ UNCHANGED <<target_addresses, ports, ports_is_iterator, ports_given, start_time,
                   scan_results, observers, tasks, calls, now, executes,
                   last_exit, submitted, completed>>

\* ---------------------------------------------------------- __notify_all
\* Mutant of NotifyArgs: the results handed over as a one-shot iterator, which
\* the first observer exhausts.
NotifyArgs_OneShotResults ==
    [target_addresses |-> target_addresses, ports |-> ports,
     scan_results |-> IF idx = 1 THEN scan_results ELSE <<>>,
     start_time |-> start_time, end_time |-> end_time]

\* The five arguments of observer.update, lines 26-30.
NotifyArgs ==
    [target_addresses |-> target_addresses, ports |-> ports,
     scan_results |-> scan_results, start_time |-> start_time,
     end_time |-> end_time]

\* Mutant of HasNext: the loop stops one observer short.
HasNext_OffByOne == idx < Len(observers)

\* Line 25: the for loop has another observer when its index is in the list.
HasNext == idx <= Len(observers)

\* Mutant of NextObserver: the list walked from its end.
NextObserver_Reversed == observers[Len(observers) + 1 - idx]

\* Line 25: the observer the for loop takes next.
NextObserver == observers[idx]

\* Lines 25-30: the loop takes the next observer and calls its update.
UpdateBegin ==
    /\ pc = "notifying"
    /\ HasNext
    /\ calls' = Append(calls, [observer |-> NextObserver, at |-> idx,
                               args |-> NotifyArgs, returned |-> FALSE,
                               raised |-> FALSE])
    /\ pc' = "in_update"
    /\ UNCHANGED <<engine, tasks, idx, now, executes, last_exit, submitted, completed>>

\* The observer's update returns; the loop moves on.
UpdateReturn ==
    /\ pc = "in_update"
    /\ calls' = [calls EXCEPT ![Len(calls)].returned = TRUE]
    /\ idx' = idx + 1
    /\ pc' = "notifying"
    /\ UNCHANGED <<engine, tasks, now, executes, last_exit, submitted, completed>>

\* Mutant of UpdateRaise: the loop catches the observer's exception and goes
\* on with the next observer.
UpdateRaise_Contained ==
    /\ pc = "in_update"
    /\ calls' = [calls EXCEPT ![Len(calls)].raised = TRUE]
    /\ idx' = idx + 1
    /\ pc' = "notifying"
    /\ UNCHANGED <<engine, tasks, now, executes, last_exit, submitted, completed>>

\* The observer's update raises: nothing catches it in __notify_all or
\* execute.
UpdateRaise ==
    /\ pc = "in_update"
    /\ calls' = [calls EXCEPT ![Len(calls)].raised = TRUE]
    /\ pc' = "idle"
    /\ last_exit' = "observer_error"
    /\ UNCHANGED <<engine, tasks, idx, now, executes, submitted, completed>>

\* The loop is exhausted; __notify_all and execute return.
NotifyDone ==
    /\ pc = "notifying"
    /\ ~HasNext
    /\ pc' = "idle"
    /\ last_exit' = "returned"
    /\ UNCHANGED <<engine, tasks, idx, calls, now, executes, submitted, completed>>

\* ------------------------------------------------------------------ Next
TaskIds == 1..(MaxTargets * MaxPorts)
Outcomes == {"connected", "ConnectionRefusedError", "OSError", "OverflowError"}

Next ==
    \/ \E o \in ObserverIds : Register(o)
    \/ ExecuteBegin
    \/ ScanTargets
    \/ \E i \in TaskIds : TaskStart(i)
    \/ \E i \in TaskIds, outcome \in Outcomes : ConnectionResolves(i, outcome)
    \/ \E i \in TaskIds : TimeoutFires(i)
    \/ Tick
    \/ GatherReturn
    \/ GatherRaise
    \/ CollectGarbage
    \/ RecordEndTime
    \/ UpdateBegin
    \/ UpdateReturn
    \/ UpdateRaise
    \/ NotifyDone

Spec == Init /\ [][Next]_vars

\* The same engine with the order in which the tasks finish recorded in
\* completed (every order is a different history).
OrderInit == EngineInit /\ completed = <<>>

OrderSpec == OrderInit /\ [][Next]_vars

\* An observer whose update calls register on the engine that is notifying it
\* (ScanToScreen.__init__ is such a call): the append of line 22 runs while
\* the for loop of line 25 is iterating that list.
RegisterInUpdate(o) ==
    /\ pc = "in_update"
    /\ Len(observers) < MaxObservers
    /\ observers' = Append(observers, o)
    /\ UNCHANGED <<target_addresses, ports, ports_is_iterator, ports_given,
                   start_time, end_time, scan_results, pc, tasks, idx, calls,
                   now, executes, last_exit, submitted, completed>>

ReentrantNext ==
    \/ Next
    \/ \E o \in ObserverIds : RegisterInUpdate(o)

\* The engine with observers that may register during their update.
ReentrantSpec == Init /\ [][ReentrantNext]_vars

\* The steps the engine, the event loop and the observers take on their own:
\* the loop runs ready tasks and due timers, time passes while it waits, and
\* an update that was called returns or raises.  When a connection attempt
\* resolves, and when the caller registers or calls execute, is left open.
EngineStep ==
    \/ ScanTargets
    \/ \E i \in TaskIds : TaskStart(i)
    \/ \E i \in TaskIds : TimeoutFires(i)
    \/ (pc = "gathering" /\ Tick)
    \/ GatherReturn
    \/ GatherRaise
    \/ RecordEndTime
    \/ UpdateBegin
    \/ UpdateReturn
    \/ UpdateRaise
    \/ NotifyDone

LiveSpec == Spec /\ WF_vars(EngineStep)

\* ================================================================ claims
Count(seq, x) == Cardinality({k \in DOMAIN seq : seq[k] = x})

\* Number of probes of the current execute() call.
NumPairs == Len(target_addresses) * Len(submitted.ports)

\* The current call has stored its results (line 34 done).
ScanStored ==
    \/ pc \in {"scanned", "notifying", "in_update"}
    \/ pc = "idle" /\ last_exit \in {"returned", "observer_error"}

\* The current call has recorded its end_time (line 35 done).
EndRecorded ==
    \/ pc \in {"notifying", "in_update"}
    \/ pc = "idle" /\ last_exit \in {"returned", "observer_error"}

ResultPairs == [k \in DOMAIN scan_results |-> <<scan_results[k][1], scan_results[k][2]>>]

ProbeFailures == {"ConnectionRefusedError", "OSError", "TimeoutError"}

\* C1: once execute() has stored its results, scan_results holds
\* |targets| x |ports| outcomes, and every (target, port) pair occurs in it as
\* often as in the cross product of the submitted targets and ports
\* (duplicates counted).
C1_CrossProduct ==
    ScanStored =>
        /\ Len(scan_results) = NumPairs
        /\ \A a \in Addresses, p \in PortNumbers :
              Count(ResultPairs, <<a, p>>) =
                  Count(target_addresses, a) * Count(submitted.ports, p)

C1_Witness ==
    /\ pc = "idle" /\ last_exit = "returned"
    /\ target_addresses = <<"h1", "h1">>
    /\ submitted.ports = <<80, 80>>
    /\ Len(scan_results) = 4
    /\ \E i, j \in DOMAIN scan_results :
          scan_results[i][3] = "open" /\ scan_results[j][3] = "closed"

\* C2 as claimed: no probe ever raises, whatever makes its attempt fail.
C2_NoProbeRaises == \A i \in DOMAIN tasks : tasks[i].status # "raised"

\* C2 as amended: a probe whose attempt fails with ConnectionRefusedError,
\* another OSError or the timeout returns (address, port, 'closed'); a probe
\* whose attempt raises OverflowError raises it.
C2_SuppressedFailuresClose ==
    [][\A i \in TaskIds :
          /\ \A e \in ProbeFailures :
                (IF e = "TimeoutError" THEN TimeoutFires(i)
                                       ELSE ConnectionResolves(i, e))
                => /\ tasks'[i].status = "returned"
                   /\ Result(tasks'[i]) =
                          <<tasks[i].ip_address, tasks[i].port, "closed">>
          /\ ConnectionResolves(i, "OverflowError")
                => /\ tasks'[i].status = "raised"
                   /\ tasks'[i].exc = "OverflowError"]_vars

C2_Witness ==
    \E i, j \in DOMAIN tasks :
        /\ tasks[i].status = "returned" /\ tasks[i].port_state = "closed"
        /\ tasks[j].status = "raised"

\* C3: a probe that returns reports the address and port it was given, and
\* the state 'open' exactly when its attempt connected before the timeout,
\* 'closed' otherwise; there is no third state.
C3_OpenIffConnected ==
    [][\A i \in TaskIds :
          (/\ i \in DOMAIN tasks /\ i \in DOMAIN tasks'
           /\ tasks[i].status = "awaiting"
           /\ tasks'[i].status = "returned")
          => /\ Result(tasks'[i])[1] = tasks[i].ip_address
             /\ Result(tasks'[i])[2] = tasks[i].port
             /\ Result(tasks'[i])[3] \in {"open", "closed"}
             /\ Result(tasks'[i])[3] = "open" <=> ConnectionResolves(i, "connected")]_vars

C3_Witness ==
    /\ pc = "gathering"
    /\ \E i, j \in DOMAIN tasks :
          /\ tasks[i].status = "returned" /\ tasks[i].port_state = "open"
          /\ tasks[j].status = "returned" /\ tasks[j].port_state = "closed"
          /\ tasks[i].port = tasks[j].port

IsAwaiting(i) == i \in DOMAIN tasks /\ tasks[i].status = "awaiting"

\* C4 as claimed: every probe task eventually terminates with an outcome.
C4_EveryProbeYieldsOutcome ==
    \A i \in TaskIds :
        IsAwaiting(i) ~> (i \in DOMAIN tasks /\ tasks[i].status = "returned")

\* C4 as amended: a probe whose timer fires returns 'closed', and every probe
\* task eventually terminates: it returns its outcome, raises, or is cancelled
\* when another probe's exception aborts execute().
C4_ProbesTerminate ==
    /\ [][\A i \in TaskIds :
            TimeoutFires(i) => /\ tasks'[i].status = "returned"
                               /\ Result(tasks'[i])[3] = "closed"]_vars
    /\ \A i \in TaskIds :
          IsAwaiting(i) ~>
              (i \in DOMAIN tasks
               /\ tasks[i].status \in {"returned", "raised", "cancelled"})

\* The timeout ran out during the scan: the probes still waiting then were
\* ended by their timers, and every probe has reported 'closed'.
C4_Witness ==
    /\ pc = "gathering"
    /\ Len(tasks) >= 2
    /\ now - start_time >= TimeoutTicks
    /\ \A i \in DOMAIN tasks :
          tasks[i].status = "returned" /\ tasks[i].port_state = "closed"

\* C5: whenever an update is or has been invoked in the current call, every
\* probe task has returned, scan_results holds all their outcomes and end_time
\* is recorded; the results an observer was handed are complete.
C5_Barrier ==
    (pc \in {"notifying", "in_update"} \/ calls # <<>>) =>
        /\ Len(tasks) = NumPairs
        /\ \A i \in DOMAIN tasks : tasks[i].status = "returned"
        /\ scan_results = [k \in DOMAIN tasks |-> Result(tasks[k])]
        /\ end_time # NoTime /\ end_time >= start_time
        /\ \A k \in DOMAIN calls : Len(calls[k].args.scan_results) = NumPairs

C5_Witness ==
    /\ pc = "in_update"
    /\ Len(tasks) = 4
    /\ now > start_time
    /\ \E i \in DOMAIN tasks : tasks[i].port_state = "open"

\* C6: every update of the current call was handed the engine's
\* target_addresses, ports, scan_results, start_time and end_time, so all
\* invocations got identical arguments.
C6_SameArguments ==
    \A k \in DOMAIN calls :
        calls[k].args = [target_addresses |-> target_addresses,
                         ports |-> ports, scan_results |-> scan_results,
                         start_time |-> start_time, end_time |-> end_time]

C6_Witness ==
    /\ Len(calls) = 2
    /\ calls[1].observer # calls[2].observer
    /\ Len(scan_results) >= 2

\* C7: when execute() returns without an observer raising, each observer's
\* update has been invoked as often as the observer was registered when the
\* call began; with no observer registered there is no invocation.
C7_NotifiedPerRegistration ==
    (pc = "idle" /\ last_exit = "returned") =>
        /\ Len(calls) = Len(submitted.observers)
        /\ \A o \in ObserverIds :
              Count([k \in DOMAIN calls |-> calls[k].observer], o) =
                  Count(submitted.observers, o)

C7_Witness ==
    /\ pc = "idle" /\ last_exit = "returned"
    /\ submitted.observers = <<"o1", "o1">>
    /\ Len(calls) = 2

\* C8: the k-th update of a call goes to the k-th registered observer, and it
\* begins only after every earlier update has returned.
C8_RegistrationOrder ==
    /\ Len(calls) <= Len(submitted.observers)
    /\ \A k \in DOMAIN calls :
          /\ calls[k].observer = submitted.observers[k]
          /\ k < Len(calls) => calls[k].returned

C8_Witness ==
    /\ pc = "in_update"
    /\ submitted.observers = <<"o2", "o1">>
    /\ Len(calls) = 2
    /\ calls[1].returned /\ ~calls[2].returned

\* C9 as claimed: whenever start_time and end_time are both set,
\* end_time >= start_time.
C9_EndNotBeforeStart ==
    (start_time # NoTime /\ end_time # NoTime) => end_time >= start_time

\* C9 as amended: once the current execute() call has recorded its end_time,
\* and until the next call begins, both are set and end_time >= start_time.
C9_EndNotBeforeStartOnceRecorded ==
    EndRecorded =>
        start_time # NoTime /\ end_time # NoTime /\ end_time >= start_time

C9_Witness ==
    /\ pc = "idle" /\ last_exit = "returned"
    /\ executes = 2
    /\ start_time > 0
    /\ end_time > start_time

\* The call ended by returning, with the scan stored and every observer
\* notified.
Completed ==
    /\ pc = "idle" /\ last_exit = "returned"
    /\ Len(scan_results) = NumPairs
    /\ end_time # NoTime /\ end_time >= start_time
    /\ Len(calls) = Len(observers)
    /\ \A k \in DOMAIN calls : calls[k].returned

\* A probe raised an exception that is no refusal, timeout or OS error.
ProbeRaisedOther ==
    \E i \in DOMAIN tasks :
        tasks[i].status = "raised" /\ tasks[i].exc \notin ProbeFailures

\* C10: an execute() call in which probes only connect, are refused, time out
\* or fail with an OS error, and observers return, ends with N outcomes
\* stored, end_time recorded and every observer notified; a probe failure of
\* these kinds never aborts the call.
C10_ExecuteCompletes ==
    /\ [](last_exit = "probe_error" => ProbeRaisedOther)
    /\ (pc = "started") ~>
          (Completed \/ ProbeRaisedOther \/ last_exit = "observer_error")

C10_Witness ==
    /\ Completed
    /\ Len(calls) = 2
    /\ now > start_time
    /\ \E i, j \in DOMAIN scan_results :
          scan_results[i][3] = "open" /\ scan_results[j][3] = "closed"

\* C11: an update that raised is the last invocation of its call: the
\* exception has left execute(), the observers registered before the failing
\* one were notified and returned, those after it were not notified, and
\* start_time, end_time and scan_results are still the completed scan's.
C11_ObserverFailureAborts ==
    \A k \in DOMAIN calls :
        calls[k].raised =>
            /\ pc = "idle" /\ last_exit = "observer_error"
            /\ k = Len(calls) /\ k = idx /\ k <= Len(submitted.observers)
            /\ \A j \in 1..(k - 1) :
                  /\ calls[j].observer = submitted.observers[j]
                  /\ calls[j].returned /\ ~calls[j].raised
            /\ calls[k].observer = submitted.observers[k]
            /\ scan_results = [n \in DOMAIN tasks |-> Result(tasks[n])]
            /\ Len(scan_results) = NumPairs
            /\ start_time = calls[k].args.start_time
            /\ end_time = calls[k].args.end_time
            /\ end_time # NoTime /\ end_time >= start_time

C11_Witness ==
    /\ pc = "idle" /\ last_exit = "observer_error"
    /\ submitted.observers = <<"o1", "o2">>
    /\ Len(calls) = 1 /\ calls[1].raised
    /\ Len(scan_results) = 4

\* C12 as claimed: after every execute() call that returned, scan_results
\* holds the |targets| x |ports| outcomes of that call, for the ports the
\* engine was constructed with, and that is what its observers were handed.
C12_RepeatedExecuteRescans ==
    (pc = "idle" /\ last_exit = "returned") =>
        /\ Len(scan_results) = Len(target_addresses) * Len(ports_given)
        /\ \A k \in DOMAIN calls :
              Len(calls[k].args.scan_results) =
                  Len(target_addresses) * Len(ports_given)

\* C13: the observer list changes only by one observer being appended at its
\* end, in a step that leaves targets, ports, start_time, end_time,
\* scan_results and the engine's position unchanged and invokes no update; an
\* observer registered after a call began is not among that call's updates.
C13_RegisterOnlyAppends ==
    /\ [][observers' # observers =>
            /\ \E o \in ObserverIds : observers' = Append(observers, o)
            /\ UNCHANGED <<target_addresses, ports, start_time, end_time,
                           scan_results, calls, pc, idx, last_exit>>]_vars
    /\ [](\A k \in DOMAIN calls :
              k <= Len(submitted.observers)
              /\ calls[k].observer = submitted.observers[k])

\* An observer was registered after execute() returned: the completed call
\* invoked only the observer registered before it.
C13_Witness ==
    /\ pc = "idle" /\ last_exit = "returned"
    /\ submitted.observers = <<"o1">>
    /\ observers = <<"o1", "o2">>
    /\ Len(calls) = 1 /\ calls[1].observer = "o1"

\* Task i finished before task j in the running (or last) asyncio.run.
FinishedBefore(i, j) ==
    \E a, b \in DOMAIN completed : a < b /\ completed[a] = i /\ completed[b] = j

\* The outcome of task i stands before the outcome of task j in scan_results.
OutcomePrecedes(i, j) ==
    \E a, b \in DOMAIN scan_results :
        /\ a < b
        /\ scan_results[a] = <<tasks[i].ip_address, tasks[i].port, tasks[i].port_state>>
        /\ scan_results[b] = <<tasks[j].ip_address, tasks[j].port, tasks[j].port_state>>

\* C14 as claimed: in the stored scan_results, the outcome of a probe that
\* finished before another probe precedes that probe's outcome.
C14_CompletionOrder ==
    ScanStored =>
        \A i, j \in DOMAIN tasks : FinishedBefore(i, j) => OutcomePrecedes(i, j)

\* C14 amended: in the stored scan_results, the outcome of a probe that was
\* submitted before another probe precedes that probe's outcome, whichever of
\* the two finished first.
C14_SubmissionOrder ==
    ScanStored =>
        \A i, j \in DOMAIN tasks : i < j => OutcomePrecedes(i, j)

\* Four probes finished in the reverse of their submission order and their
\* outcomes are stored.
C14_Witness ==
    /\ pc = "notifying"
    /\ completed = <<4, 3, 2, 1>>
    /\ Len(scan_results) = 4

\* C15 as claimed: a probe that returned 'open' has closed the connection it
\* established, and no connection of the scan is open while an observer is
\* being notified.
C15_ConnectionReleased ==
    /\ \A i \in DOMAIN tasks :
          (tasks[i].status = "returned" /\ tasks[i].port_state = "open") =>
              tasks[i].connection = "closed"
    /\ pc = "in_update" => \A i \in DOMAIN tasks : tasks[i].connection # "open"

\* C16: outside line 33-34's window before the tasks exist, the tasks of the
\* call are exactly one per (port, address) pair in ports-outer /
\* targets-inner order; the step that begins the wait creates all of them;
\* and whenever a task has not started yet, the next one can start whatever
\* the state of the other probes' connection attempts.
C16_UnboundedFanOut ==
    /\ [](pc # "started" =>
            /\ Len(tasks) = NumPairs
            /\ \A k \in DOMAIN tasks :
                  /\ tasks[k].ip_address =
                         target_addresses[((k - 1) % Len(target_addresses)) + 1]
                  /\ tasks[k].port =
                         submitted.ports[((k - 1) \div Len(target_addresses)) + 1])
    /\ [][(pc = "started" /\ pc' # "started") =>
              /\ pc' = "gathering"
              /\ Len(tasks') = Len(target_addresses) * Len(submitted.ports)
              /\ \A k \in DOMAIN tasks' : tasks'[k].status = "created"]_vars
    /\ []((pc = "gathering" /\ \E k \in DOMAIN tasks : tasks[k].status = "created")
              => ENABLED (\E i \in TaskIds : TaskStart(i)))

\* All four probes of a two-target, two-port scan await their connection
\* attempts at the same time.
C16_Witness ==
    /\ pc = "gathering"
    /\ Len(tasks) = 4
    /\ \A k \in DOMAIN tasks : tasks[k].status = "awaiting"

\* The join: every task returned, the tasks are left as they are and
\* scan_results becomes their outcomes.
JoinStep ==
    /\ pc = "gathering" /\ pc' = "scanned"
    /\ \A k \in DOMAIN tasks : tasks[k].status = "returned"
    /\ tasks' = tasks
    /\ scan_results' = [k \in DOMAIN tasks |->
           <<tasks[k].ip_address, tasks[k].port, tasks[k].port_state>>]

\* Any other step of the probe phase.
NoJoinStep == pc' # "scanned" /\ scan_results' = scan_results

\* If task i finishes in this step, nothing but task i changes.
FinishesAlone(i) ==
    (/\ tasks[i].status = "awaiting"
     /\ i \in DOMAIN tasks'
     /\ tasks'[i].status \in {"returned", "raised"})
    => (/\ \A j \in DOMAIN tasks \ {i} : tasks'[j] = tasks[j]
        /\ UNCHANGED <<engine, pc>>)

\* C17: from the step that records start_time until the join, end_time does
\* not change and scan_results changes only in the join step, which needs
\* every task returned and writes nothing else of the tasks; a step in which
\* a task finishes changes that task alone; after the join scan_results is
\* not written again in that call.
C17_NoSharedStateInProbePhase ==
    /\ [][(pc = "idle" /\ pc' = "started") =>
              UNCHANGED <<scan_results, end_time>>]_vars
    /\ [][(pc = "started" \/ pc = "gathering") =>
              (end_time' = end_time /\ (JoinStep \/ NoJoinStep)
                  /\ \A i \in DOMAIN tasks : FinishesAlone(i))]_vars
    /\ [][(pc = "scanned" \/ pc = "notifying" \/ pc = "in_update") =>
              scan_results' = scan_results]_vars

\* In the second call one probe has returned while another still awaits, and
\* the engine still holds the results and end_time of the first call.
C17_Witness ==
    /\ pc = "gathering" /\ executes = 2
    /\ \E i, j \in DOMAIN tasks :
          tasks[i].status = "returned" /\ tasks[j].status = "awaiting"
    /\ scan_results # NoResults /\ Len(scan_results) >= 2
    /\ end_time # NoTime

\* C18: the i-th element of the stored scan_results is the i-th submitted
\* pair (ports outer, targets inner) with the state its own probe reported,
\* whatever the order in which the probes finished: scan_results is a
\* function of the targets, the ports and the per-pair outcomes.
C18_DeterministicOrder ==
    ScanStored =>
        /\ Len(scan_results) = NumPairs
        /\ Len(tasks) = NumPairs
        /\ \A k \in DOMAIN scan_results :
              scan_results[k] =
                  <<target_addresses[((k - 1) % Len(target_addresses)) + 1],
                    submitted.ports[((k - 1) \div Len(target_addresses)) + 1],
                    tasks[k].port_state>>

\* The second probe finished before the first, the first found its port open
\* and the second closed, and the results are stored.
C18_Witness ==
    /\ ScanStored
    /\ completed = <<2, 1>>
    /\ scan_results[1][3] = "open" /\ scan_results[2][3] = "closed"
    /\ scan_results[1][1] # scan_results[2][1]

\* C19 as claimed: the update invocations of a call go to the observers
\* registered when its notification began, one each and no more, also when
\* an update registers an observer.
C19_NotifiedAsRegisteredAtStart ==
    /\ Len(calls) <= Len(submitted.observers)
    /\ \A k \in DOMAIN calls :
          k <= Len(submitted.observers) =>
              calls[k].observer = submitted.observers[k]

\* C20: after a call that aborted in the probe phase, no update was invoked,
\* scan_results and end_time are what they were when the call began, and
\* start_time is the call's.
C20_ProbeAbortKeepsPrevious ==
    /\ (pc = "idle" /\ last_exit = "probe_error") =>
          /\ calls = <<>>
          /\ scan_results = submitted.previous.scan_results
          /\ end_time = submitted.previous.end_time
          /\ start_time # NoTime /\ start_time <= now
    /\ pc \in {"started", "gathering"} =>
          /\ calls = <<>>
          /\ scan_results = submitted.previous.scan_results
          /\ end_time = submitted.previous.end_time
          /\ start_time # NoTime /\ start_time <= now

\* The second call aborted in the probe phase: the engine holds the first
\* call's results and end_time under the second call's later start_time.
C20_Witness ==
    /\ pc = "idle" /\ last_exit = "probe_error" /\ executes = 2
    /\ scan_results # NoResults /\ Len(scan_results) >= 1
    /\ end_time # NoTime /\ start_time > end_time
    /\ \E i \in DOMAIN tasks : tasks[i].status = "returned"
====
